---- MODULE Spec2Model ----
(***************************************************************************)
(* Model of the market clearing engine of ecosim (src/src/main.rs):        *)
(* struct TestMarket, its rationing helper `distribute`, `trade_loop`, and *)
(* its implementation of trait Market (register_order, run_trade,          *)
(* retrieve_order_result, clear_state), and of fn main with its three      *)
(* agents RGOSingle, ProductorOneToOne and BasicPop.                       *)
(*                                                                         *)
(* Quantities are u64 in the source; the model keeps them far below 2^64,  *)
(* so additions never wrap.  A u64 subtraction that would underflow and a  *)
(* failing assert_eq! are both recorded as a panic.                        *)
(* prestige is an f64 in the source; the model writes a prestige as the    *)
(* exact fraction <<numerator, denominator>>.                              *)
(***************************************************************************)
EXTENDS Integers, Sequences, FiniteSets

VARIABLES
    buy_orders,      \* TestMarket.buy_orders : Vec<OrderInfo>
    sell_orders,     \* TestMarket.sell_orders : Vec<OrderInfo>
    price_per_unit,  \* TestMarket.price_per_unit : Price
    next_uuid,       \* number of identifiers Uuid::new_v4 has produced so far
    last,            \* the last Market call: its name, arguments, result and the book before it
    dcall,           \* one call of distribute, executed pass by pass
    eco              \* the locals of fn main: the agents, its markets, the position in its loop

vars == <<buy_orders, sell_orders, price_per_unit, next_uuid, last, dcall, eco>>

(***************************************************************************)
(* Bounds of the model.                                                    *)
(***************************************************************************)
MaxUuid == 3        \* identifiers handed out over the life of the market
MaxQty == 4         \* largest required_quantity an agent registers
MaxRecv == 3        \* longest recipient array of a stand-alone distribute call
MaxDistQty == 6     \* largest required_quantity in a stand-alone distribute call

\* quantities agents register: the degenerate order, one unit, a large order
Quantities == {0, 1, MaxQty}

\* prestige values agents register, as <<numerator, denominator>>: -1.5 and 0.5
Prestiges == {<<-3, 2>>, <<1, 2>>}

\* price_per_unit of the market of good 0 built in main
Prices == {2}

OrderTypes == {"Buy", "Sell"}

(***************************************************************************)
(* Helpers on sequences.                                                   *)
(***************************************************************************)
RECURSIVE SumSeq(_)
SumSeq(s) == IF s = <<>> THEN 0 ELSE Head(s) + SumSeq(Tail(s))

\* every order in which the elements of the finite set S can be listed
Orderings(S) ==
    {f \in [1..Cardinality(S) -> S] : \A i, j \in 1..Cardinality(S) : f[i] = f[j] => i = j}

(***************************************************************************)
(* OrderInfo                                                               *)
(***************************************************************************)
\* OrderInfo::new
OrderInfoNew(uuid, required_quantity, prestige) ==
    [uuid |-> uuid, required_quantity |-> required_quantity,
     prestige |-> prestige, traded_quantity |-> 0]

\* the closure |x| x.traded_quantity != x.required_quantity
NotFulled(x) == x.traded_quantity # x.required_quantity

\* AsI64 that rounds toward minus infinity
AsI64Floor(p) == p[1] \div p[2]

\* `prestige as i64`: conversion of an f64 to an integer truncates toward zero
AsI64(p) == IF p[1] >= 0 THEN p[1] \div p[2] ELSE -((-p[1]) \div p[2])

\* MissingTotal that forgets what the orders have traded already
MissingTotalOfRequired(arr) ==
    SumSeq([i \in DOMAIN arr |-> arr[i].required_quantity])

\* the fold |acc, x| acc + x.required_quantity - x.traded_quantity
MissingTotal(arr) ==
    SumSeq([i \in DOMAIN arr |-> arr[i].required_quantity - arr[i].traded_quantity])

\* whether that fold underflows: acc + required - traded is evaluated left to right
RECURSIVE FoldUnderflows(_, _)
FoldUnderflows(acc, arr) ==
    IF arr = <<>> THEN FALSE
    ELSE LET x == Head(arr) IN
         \/ acc + x.required_quantity < x.traded_quantity
         \/ FoldUnderflows(acc + x.required_quantity - x.traded_quantity, Tail(arr))

(***************************************************************************)
(* TestMarket::distribute                                                  *)
(***************************************************************************)
\* ChunkCap without the cut back to required_quantity
ChunkCapNoCutBack(x, eq_chunks) ==
    [x EXCEPT !.traded_quantity = x.traded_quantity + eq_chunks]

\* what one recipient holds after a chunk pass gave it eq_chunks:
\* x.traded_quantity += eq_chunks, then cut back to required_quantity if above it
ChunkCap(x, eq_chunks) ==
    IF x.traded_quantity + eq_chunks > x.required_quantity
    THEN [x EXCEPT !.traded_quantity = x.required_quantity]
    ELSE [x EXCEPT !.traded_quantity = x.traded_quantity + eq_chunks]

\* ChunkPassArray that hands the chunk to the last not yet full recipient only
ChunkPassArrayLastOnly(arr, eq_chunks) ==
    [i \in DOMAIN arr |->
        IF NotFulled(arr[i]) /\ (\A k \in (i + 1)..Len(arr) : ~NotFulled(arr[k]))
        THEN ChunkCap(arr[i], eq_chunks)
        ELSE arr[i]]

\* the array after the fold of one chunk pass: every not yet full recipient gets the chunk
ChunkPassArray(arr, eq_chunks) ==
    [i \in DOMAIN arr |-> IF NotFulled(arr[i]) THEN ChunkCap(arr[i], eq_chunks) ELSE arr[i]]

\* ChunkPlaced that counts the whole chunk for a recipient that was cut back
ChunkPlacedWholeChunk(x, eq_chunks) == eq_chunks

\* what the fold adds for one recipient: eq_chunks, or eq_chunks - rem when it was cut back
ChunkPlaced(x, eq_chunks) ==
    IF x.traded_quantity + eq_chunks > x.required_quantity
    THEN eq_chunks - (x.traded_quantity + eq_chunks - x.required_quantity)
    ELSE eq_chunks

\* the value of that fold
ChunkPassDistributed(arr, eq_chunks) ==
    SumSeq([i \in DOMAIN arr |->
        IF NotFulled(arr[i]) THEN ChunkPlaced(arr[i], eq_chunks) ELSE 0])

\* recvarray.iter().filter(not full).count()
NotFulledCount(arr) == Cardinality({i \in DOMAIN arr : NotFulled(arr[i])})

\* the state in which the `loop` is left by a break
LeaveLoop(arr, dist_for_now, panic) ==
    [arr |-> arr, dist_for_now |-> dist_for_now, next |-> "remainder", panic |-> panic]

\* ChunkPassEnd that does not add what the pass distributed to dist_for_now
ChunkPassEndNotAdded(arr, dist_for_now, eq_chunks, distributed) ==
    [arr |-> ChunkPassArray(arr, eq_chunks),
     dist_for_now |-> dist_for_now,
     next |-> IF distributed = 0 THEN "remainder" ELSE "loop",
     panic |-> FALSE]

\* the end of a pass that distributed `distributed`:
\* dist_for_now += distributed; if distributed == 0 { break; }
ChunkPassEnd(arr, dist_for_now, eq_chunks, distributed) ==
    [arr |-> ChunkPassArray(arr, eq_chunks),
     dist_for_now |-> dist_for_now + distributed,
     next |-> IF distributed = 0 THEN "remainder" ELSE "loop",
     panic |-> FALSE]

\* if eq_chunks == 0 { break; } and the fold
ChunkPass(arr, dist_for_now, eq_chunks) ==
    IF eq_chunks = 0
    THEN LeaveLoop(arr, dist_for_now, FALSE)
    ELSE ChunkPassEnd(arr, dist_for_now, eq_chunks, ChunkPassDistributed(arr, eq_chunks))

\* ChunkStepCount that takes the chunk from the whole pool in every pass
ChunkStepCountWholePool(total_to_dist, dist_for_now, arr, not_fulled) ==
    IF not_fulled = 0 THEN LeaveLoop(arr, dist_for_now, FALSE)
    ELSE ChunkPass(arr, dist_for_now, total_to_dist \div not_fulled)

\* if not_fulled == 0 { break; } and eq_chunks = (total_to_dist - dist_for_now) / not_fulled
ChunkStepCount(total_to_dist, dist_for_now, arr, not_fulled) ==
    IF not_fulled = 0 THEN LeaveLoop(arr, dist_for_now, FALSE)
    ELSE IF total_to_dist < dist_for_now THEN LeaveLoop(arr, dist_for_now, TRUE)
    ELSE ChunkPass(arr, dist_for_now, (total_to_dist - dist_for_now) \div not_fulled)

\* One pass of the `loop` of distribute from the state (arr, dist_for_now).
\* next = "loop": the loop goes round again; "remainder": the loop was left.
ChunkStep(total_to_dist, dist_for_now, arr) ==
    ChunkStepCount(total_to_dist, dist_for_now, arr, NotFulledCount(arr))

\* the `loop` of distribute, run until it is left
RECURSIVE ChunkLoop(_, _, _)
ChunkLoopNext(total_to_dist, s) ==
    IF s.next = "loop" /\ ~s.panic
    THEN ChunkLoop(total_to_dist, s.dist_for_now, s.arr)
    ELSE s

ChunkLoop(total_to_dist, dist_for_now, arr) ==
    ChunkLoopNext(total_to_dist, ChunkStep(total_to_dist, dist_for_now, arr))

\* RemainderLoop that leaves the remainder where it is
RemainderLoopNone(arr, i, remainder, dist_for_now) ==
    [arr |-> arr, ret |-> dist_for_now, panic |-> FALSE]

\* the `for bo in ... filter(not full)` loop: one unit each, in iteration order,
\* while remainder > 0
RECURSIVE RemainderLoop(_, _, _, _)
RemainderLoop(arr, i, remainder, dist_for_now) ==
    IF i > Len(arr) THEN [arr |-> arr, ret |-> dist_for_now, panic |-> FALSE]
    ELSE IF ~NotFulled(arr[i]) THEN RemainderLoop(arr, i + 1, remainder, dist_for_now)
    ELSE IF remainder > 0
    THEN RemainderLoop([arr EXCEPT ![i].traded_quantity = @ + 1], i + 1,
                       remainder - 1, dist_for_now + 1)
    ELSE [arr |-> arr, ret |-> dist_for_now, panic |-> FALSE]

\* RemainderStep that hands the whole remainder to the first recipient
RemainderStepToFirst(total_to_dist, dist_for_now, arr) ==
    IF total_to_dist < dist_for_now
    THEN [arr |-> arr, ret |-> dist_for_now, panic |-> TRUE]
    ELSE IF arr = <<>> THEN [arr |-> arr, ret |-> dist_for_now, panic |-> FALSE]
    ELSE [arr |-> [arr EXCEPT ![1].traded_quantity = @ + (total_to_dist - dist_for_now)],
          ret |-> total_to_dist, panic |-> FALSE]

\* the part of distribute after the `loop`: remainder = total_to_dist - dist_for_now
RemainderStep(total_to_dist, dist_for_now, arr) ==
    IF total_to_dist < dist_for_now
    THEN [arr |-> arr, ret |-> dist_for_now, panic |-> TRUE]
    ELSE RemainderLoop(arr, 1, total_to_dist - dist_for_now, dist_for_now)

DistributeAfterLoop(total_to_dist, c) ==
    IF c.panic THEN [arr |-> c.arr, ret |-> c.dist_for_now, panic |-> TRUE]
    ELSE RemainderStep(total_to_dist, c.dist_for_now, c.arr)

\* first come, first served: each recipient in turn takes what it lacks from the pool
RECURSIVE ServeInTurn(_, _, _, _)
ServeInTurn(arr, i, pool, placed) ==
    IF i > Len(arr) THEN [arr |-> arr, ret |-> placed, panic |-> FALSE]
    ELSE ServeInTurn(
            [arr EXCEPT ![i].traded_quantity =
                @ + (IF pool < arr[i].required_quantity - @
                     THEN pool ELSE arr[i].required_quantity - @)],
            i + 1,
            pool - (IF pool < arr[i].required_quantity - arr[i].traded_quantity
                    THEN pool ELSE arr[i].required_quantity - arr[i].traded_quantity),
            placed + (IF pool < arr[i].required_quantity - arr[i].traded_quantity
                      THEN pool ELSE arr[i].required_quantity - arr[i].traded_quantity))

\* distribute that serves the recipients first come, first served
distributeInTurn(total_to_dist, recvarray) == ServeInTurn(recvarray, 1, total_to_dist, 0)

\* distribute(total_to_dist, recvarray): the array it leaves and the value it returns
distribute(total_to_dist, recvarray) ==
    DistributeAfterLoop(total_to_dist, ChunkLoop(total_to_dist, 0, recvarray))

(***************************************************************************)
(* TestMarket::trade_loop                                                  *)
(***************************************************************************)
\* assert_eq!(distributed, chk_dist); distributed
TradeLoopEnd(r, d) ==
    [distrarray |-> d.arr, recvarray |-> r.arr, ret |-> r.ret,
     panic |-> r.panic \/ d.panic \/ r.ret # d.ret]

\* TradeLoopReport that does not report the distribution to the distributors
TradeLoopReportSkipped(distrarray, r) ==
    [distrarray |-> distrarray, recvarray |-> r.arr, ret |-> r.ret, panic |-> r.panic]

\* chk_dist = self.distribute(distributed, distrarray)
TradeLoopReport(distrarray, r) == TradeLoopEnd(r, distribute(r.ret, distrarray))

\* distribute total_to_dist over recvarray, then the amount placed over distrarray
trade_loop(distrarray, recvarray, total_to_dist) ==
    TradeLoopReport(distrarray, distribute(total_to_dist, recvarray))

(***************************************************************************)
(* TestMarket::run_trade                                                   *)
(***************************************************************************)
\* the keys of the map built from one side: bo.prestige as i64
TierKeys(orders) == {AsI64(orders[i].prestige) : i \in DOMAIN orders}

\* Tier that builds its orders anew with OrderInfo::new instead of cloning them
TierNew(orders, k) ==
    SelectSeq([i \in DOMAIN orders |->
                  OrderInfoNew(orders[i].uuid, orders[i].required_quantity,
                               orders[i].prestige)],
              LAMBDA o : AsI64(o.prestige) = k)

\* the Vec stored under key k: the side's orders of that key, in the order of the book
Tier(orders, k) == SelectSeq(orders, LAMBDA o : AsI64(o.prestige) = k)

\* into_values() of the map, when its keys are visited in the order keyorder
TierValues(orders, keyorder) == [i \in DOMAIN keyorder |-> Tier(orders, keyorder[i])]

\* FillAll that leaves the orders as they are
FillAllSkipped(arr) == arr

\* for bo in array.iter_mut() { bo.traded_quantity = bo.required_quantity; }
FillAll(arr) == [i \in DOMAIN arr |-> [arr[i] EXCEPT !.traded_quantity = arr[i].required_quantity]]

Panicked(rb, rs, total) ==
    [buy |-> rb, sell |-> rs, ret |-> total, panic |-> TRUE, iters |-> 1]

\* the loop 'main went round once more before it reached r
Iterated(r) == [r EXCEPT !.iters = @ + 1]

RECURSIVE MainLoop(_, _, _, _, _, _, _)

\* GreaterArm that leaves the loop without taking the next buy tier
GreaterArmNoNext(t, total_buy, buyvaliter, sellvaliter, result_buyarray, result_sellarray, total_final_traded) ==
    [buy |-> result_buyarray \o t.distrarray,
     sell |-> result_sellarray \o t.recvarray,
     ret |-> total_final_traded + t.ret, panic |-> t.panic \/ t.ret # total_buy,
     iters |-> 1]

\* Ordering::Greater, after t = trade_loop(buyarray, sellarray, total_buy)
GreaterArm(t, total_buy, buyvaliter, sellvaliter, result_buyarray, result_sellarray, total_final_traded) ==
    IF t.panic \/ t.ret # total_buy
    THEN Panicked(result_buyarray, result_sellarray, total_final_traded)
    ELSE IF buyvaliter # <<>>
    THEN Iterated(MainLoop(Head(buyvaliter), t.recvarray, Tail(buyvaliter), sellvaliter,
                           result_buyarray \o t.distrarray, result_sellarray,
                           total_final_traded + t.ret))
    ELSE [buy |-> result_buyarray \o t.distrarray,
          sell |-> result_sellarray \o t.recvarray,
          ret |-> total_final_traded + t.ret, panic |-> FALSE, iters |-> 1]

\* Ordering::Less, after t = trade_loop(sellarray, buyarray, total_sell)
LessArm(t, total_sell, buyvaliter, sellvaliter, result_buyarray, result_sellarray, total_final_traded) ==
    IF t.panic \/ t.ret # total_sell
    THEN Panicked(result_buyarray, result_sellarray, total_final_traded)
    ELSE IF sellvaliter # <<>>
    THEN Iterated(MainLoop(t.recvarray, Head(sellvaliter), buyvaliter, Tail(sellvaliter),
                           result_buyarray, result_sellarray \o t.distrarray,
                           total_final_traded + t.ret))
    ELSE [buy |-> result_buyarray \o t.recvarray,
          sell |-> result_sellarray \o t.distrarray,
          ret |-> total_final_traded + t.ret, panic |-> FALSE, iters |-> 1]

\* Ordering::Equal, with both tiers filled and appended to the result arrays.  When the
\* buy iterator yields a tier and the sell iterator does not, that tier is in buyarray
\* at `break 'main` and in neither result array.
EqualArm(buyvaliter, sellvaliter, result_buyarray, result_sellarray, total_final_traded) ==
    IF buyvaliter = <<>> \/ sellvaliter = <<>>
    THEN [buy |-> result_buyarray, sell |-> result_sellarray,
          ret |-> total_final_traded, panic |-> FALSE, iters |-> 1]
    ELSE Iterated(MainLoop(Head(buyvaliter), Head(sellvaliter), Tail(buyvaliter),
                           Tail(sellvaliter), result_buyarray, result_sellarray,
                           total_final_traded))

\* MatchArm whose Greater arm hands trade_loop the sell side's total as the pool
MatchArmSellPool(total_buy, total_sell, buyarray, sellarray, buyvaliter, sellvaliter, result_buyarray, result_sellarray, total_final_traded) ==
    IF total_sell > total_buy
    THEN GreaterArm(trade_loop(buyarray, sellarray, total_sell), total_buy,
                    buyvaliter, sellvaliter, result_buyarray, result_sellarray,
                    total_final_traded)
    ELSE IF total_sell < total_buy
    THEN LessArm(trade_loop(sellarray, buyarray, total_sell), total_sell,
                 buyvaliter, sellvaliter, result_buyarray, result_sellarray,
                 total_final_traded)
    ELSE EqualArm(buyvaliter, sellvaliter,
                  result_buyarray \o FillAll(buyarray),
                  result_sellarray \o FillAll(sellarray),
                  total_final_traded + total_buy)

\* match total_sell.cmp(&total_buy)
MatchArm(total_buy, total_sell, buyarray, sellarray, buyvaliter, sellvaliter, result_buyarray, result_sellarray, total_final_traded) ==
    IF total_sell > total_buy
    THEN GreaterArm(trade_loop(buyarray, sellarray, total_buy), total_buy,
                    buyvaliter, sellvaliter, result_buyarray, result_sellarray,
                    total_final_traded)
    ELSE IF total_sell < total_buy
    THEN LessArm(trade_loop(sellarray, buyarray, total_sell), total_sell,
                 buyvaliter, sellvaliter, result_buyarray, result_sellarray,
                 total_final_traded)
    ELSE EqualArm(buyvaliter, sellvaliter,
                  result_buyarray \o FillAll(buyarray),
                  result_sellarray \o FillAll(sellarray),
                  total_final_traded + total_buy)

\* The loop 'main from the state (buyarray, sellarray, the two iterators, the two
\* result arrays, total_final_traded), run until `break 'main`; iters counts the
\* iterations it took.
MainLoop(buyarray, sellarray, buyvaliter, sellvaliter, result_buyarray, result_sellarray, total_final_traded) ==
    IF FoldUnderflows(0, buyarray) \/ FoldUnderflows(0, sellarray)
    THEN Panicked(result_buyarray, result_sellarray, total_final_traded)
    ELSE MatchArm(MissingTotal(buyarray), MissingTotal(sellarray), buyarray, sellarray,
                  buyvaliter, sellvaliter, result_buyarray, result_sellarray,
                  total_final_traded)

\* the first tiers taken with next().unwrap(), then the loop
RunTradeTiers(bv, sv) == MainLoop(Head(bv), Head(sv), Tail(bv), Tail(sv), <<>>, <<>>, 0)

\* RunTradeResult that marks the orders of a one-sided book as traded
RunTradeResultFillsOneSided(buys, sells, buykeys, sellkeys) ==
    IF buys = <<>> \/ sells = <<>>
    THEN [buy |-> FillAll(buys), sell |-> FillAll(sells), ret |-> 0, panic |-> FALSE,
          iters |-> 0]
    ELSE RunTradeTiers(TierValues(buys, buykeys), TierValues(sells, sellkeys))

\* run_trade on the book (buys, sells) when the two maps yield their values in the
\* orders buykeys and sellkeys: the book it leaves and the value it returns
RunTradeResult(buys, sells, buykeys, sellkeys) ==
    IF buys = <<>> \/ sells = <<>>
    THEN [buy |-> buys, sell |-> sells, ret |-> 0, panic |-> FALSE, iters |-> 0]
    ELSE RunTradeTiers(TierValues(buys, buykeys), TierValues(sells, sellkeys))

(***************************************************************************)
(* TestMarket::retrieve_order_result                                       *)
(***************************************************************************)
None == [some |-> FALSE, ordertype |-> "None", traded_quantity |-> 0, total_cost |-> 0]

\* OrderResult::new, wrapped in Some
SomeOrderResult(ordertype, traded_quantity, total_cost) ==
    [some |-> TRUE, ordertype |-> ordertype, traded_quantity |-> traded_quantity,
     total_cost |-> total_cost]

\* iter().find(|x| &x.uuid == uuid): the index of the first order with that uuid, 0 if none
Find(orders, uuid) ==
    IF \E i \in DOMAIN orders : orders[i].uuid = uuid
    THEN CHOOSE i \in DOMAIN orders :
            /\ orders[i].uuid = uuid
            /\ \A j \in 1..(i - 1) : orders[j].uuid # uuid
    ELSE 0

\* ResultOf that prices the quantity the order asked for
ResultOfRequired(ordertype, x, price) ==
    SomeOrderResult(ordertype, x.traded_quantity, x.required_quantity * price)

\* Some(OrderResult::new(side, x.traded_quantity, x.traded_quantity as f64 * price))
ResultOf(ordertype, x, price) ==
    SomeOrderResult(ordertype, x.traded_quantity, x.traded_quantity * price)

retrieve_order_result(buys, sells, price, uuid) ==
    IF Find(buys, uuid) # 0 THEN ResultOf("Buy", buys[Find(buys, uuid)], price)
    ELSE IF Find(sells, uuid) # 0 THEN ResultOf("Sell", sells[Find(sells, uuid)], price)
    ELSE None

(***************************************************************************)
(* The market as a state machine: one action per method of trait Market.   *)
(***************************************************************************)
\* the record kept of the last call
Call(op, args, uuid, result, ret, panic, iters, pre_buy, pre_sell) ==
    [op |-> op, args |-> args, uuid |-> uuid, result |-> result, ret |-> ret,
     panic |-> panic, iters |-> iters, pre_buy |-> pre_buy, pre_sell |-> pre_sell]

NoCall == Call("new", <<>>, 0, None, 0, FALSE, 0, <<>>, <<>>)

\* no distribute call is being followed
NoDist == [pc |-> "idle", total_to_dist |-> 0, recv0 |-> <<>>, recvarray |-> <<>>,
           dist_for_now |-> 0, passes |-> 0, panic |-> FALSE]

\* TestMarket { good_uid, price_per_unit, buy_orders: vec![], sell_orders: vec![] }
MarketInit ==
    /\ buy_orders = <<>>
    /\ sell_orders = <<>>
    /\ price_per_unit \in Prices
    /\ next_uuid = 0
    /\ last = NoCall

\* main is not running
NoMain == [pc |-> "off"]

Init == MarketInit /\ dcall = NoDist /\ eco = NoMain

\* NewV4 that hands out the identifier it handed out last
NewV4Reused == next_uuid

\* Uuid::new_v4(): an identifier that no earlier call returned
NewV4 == next_uuid + 1

register_order(otype, quantity, prestige) ==
    /\ next_uuid < MaxUuid
    /\ LET uuid == NewV4 IN
       /\ buy_orders' = IF otype = "Buy"
                        THEN Append(buy_orders, OrderInfoNew(uuid, quantity, prestige))
                        ELSE buy_orders
       /\ sell_orders' = IF otype = "Sell"
                         THEN Append(sell_orders, OrderInfoNew(uuid, quantity, prestige))
                         ELSE sell_orders
       /\ next_uuid' = uuid
       /\ last' = Call("register_order", <<otype, quantity, prestige>>, uuid, None, 0, FALSE, 0,
                       buy_orders, sell_orders)
    /\ UNCHANGED <<price_per_unit, dcall, eco>>

\* RunTradeCommit that stores each result array on the other side
RunTradeCommitSwapped(r) ==
    /\ buy_orders' = IF r.panic THEN buy_orders ELSE r.sell
    /\ sell_orders' = IF r.panic THEN sell_orders ELSE r.buy
    /\ last' = Call("run_trade", <<>>, 0, None, r.ret, r.panic, r.iters, buy_orders, sell_orders)

\* self.buy_orders = result_buyarray; self.sell_orders = result_sellarray; Ok(total);
\* a panic leaves the book as it was: the loop works on clones
RunTradeCommit(r) ==
    /\ buy_orders' = IF r.panic THEN buy_orders ELSE r.buy
    /\ sell_orders' = IF r.panic THEN sell_orders ELSE r.sell
    /\ last' = Call("run_trade", <<>>, 0, None, r.ret, r.panic, r.iters, buy_orders, sell_orders)

\* the two maps may yield their values in any order of their keys
run_trade ==
    /\ \E buykeys \in Orderings(TierKeys(buy_orders)) :
       \E sellkeys \in Orderings(TierKeys(sell_orders)) :
          RunTradeCommit(RunTradeResult(buy_orders, sell_orders, buykeys, sellkeys))
    /\ UNCHANGED <<price_per_unit, next_uuid, dcall, eco>>

retrieve(uuid) ==
    /\ last' = Call("retrieve_order_result", <<uuid>>, uuid,
                    retrieve_order_result(buy_orders, sell_orders, price_per_unit, uuid),
                    0, FALSE, 0, buy_orders, sell_orders)
    /\ UNCHANGED <<buy_orders, sell_orders, price_per_unit, next_uuid, dcall, eco>>

\* clear_state that forgets to clear sell_orders
clear_state_buys_only ==
    /\ buy_orders' = <<>>
    /\ sell_orders' = sell_orders
    /\ last' = Call("clear_state", <<>>, 0, None, 0, FALSE, 0, <<>>, <<>>)
    /\ UNCHANGED <<price_per_unit, next_uuid, dcall, eco>>

clear_state ==
    /\ buy_orders' = <<>>
    /\ sell_orders' = <<>>
    /\ last' = Call("clear_state", <<>>, 0, None, 0, FALSE, 0, <<>>, <<>>)
    /\ UNCHANGED <<price_per_unit, next_uuid, dcall, eco>>

Register == \E otype \in OrderTypes, quantity \in Quantities, prestige \in Prestiges :
                register_order(otype, quantity, prestige)

\* retrieve_order_result with an identifier that was handed out, or one that never was
Retrieve == \E uuid \in 1..(next_uuid + 1) : retrieve(uuid)

Next == Register \/ run_trade \/ Retrieve \/ clear_state

Spec == Init /\ [][Next]_vars

(***************************************************************************)
(* The market when the agents register the orders of one book only: two    *)
(* buy orders of 100 and 50 units and a sell order of 90 units, all of     *)
(* prestige 5.0.                                                           *)
(***************************************************************************)
ScenarioOrders ==
    {<<"Buy", 100, <<5, 1>>>>, <<"Buy", 50, <<5, 1>>>>, <<"Sell", 90, <<5, 1>>>>}

ScenarioRegister == \E o \in ScenarioOrders : register_order(o[1], o[2], o[3])

ScenarioNext == ScenarioRegister \/ run_trade \/ Retrieve \/ clear_state

SpecScenario == Init /\ [][ScenarioNext]_vars

(***************************************************************************)
(* One call of distribute on an arbitrary recipient array, followed pass   *)
(* by pass: pc = "loop" before a pass of the `loop`, "remainder" once the  *)
(* loop is left, "done" when distribute returns dist_for_now.              *)
(***************************************************************************)
\* a recipient as distribute sees it: it reads and writes the two quantities only
Recipient(required_quantity, traded_quantity) ==
    [uuid |-> 0, required_quantity |-> required_quantity,
     prestige |-> <<0, 1>>, traded_quantity |-> traded_quantity]

\* recipients that are untouched or carry one unit from an earlier call
Recipients ==
    {Recipient(q, t) : q \in 0..MaxDistQty, t \in 0..1} \ {Recipient(0, 1)}

RecvArrays == UNION {[1..n -> Recipients] : n \in 0..MaxRecv}

\* the market is not touched while distribute runs
MarketIdle ==
    /\ buy_orders = <<>>
    /\ sell_orders = <<>>
    /\ price_per_unit \in Prices
    /\ next_uuid = 0
    /\ last = NoCall

\* let mut dist_for_now = 0_u64; total_to_dist up to one more than the recipients lack
DistInit ==
    /\ MarketIdle
    /\ eco = NoMain
    /\ \E recvarray \in RecvArrays :
       \E total_to_dist \in 0..(MissingTotal(recvarray) + 1) :
          dcall = [pc |-> "loop", total_to_dist |-> total_to_dist, recv0 |-> recvarray,
                   recvarray |-> recvarray, dist_for_now |-> 0, passes |-> 0,
                   panic |-> FALSE]

DistAfterPass(s) ==
    dcall' = [dcall EXCEPT !.recvarray = s.arr, !.dist_for_now = s.dist_for_now,
                           !.pc = s.next, !.panic = s.panic, !.passes = @ + 1]

\* one pass of the `loop`
DistChunkPass ==
    /\ dcall.pc = "loop"
    /\ DistAfterPass(ChunkStep(dcall.total_to_dist, dcall.dist_for_now, dcall.recvarray))
    /\ UNCHANGED <<buy_orders, sell_orders, price_per_unit, next_uuid, last, eco>>

DistAfterRemainder(r) ==
    dcall' = [dcall EXCEPT !.recvarray = r.arr, !.dist_for_now = r.ret,
                           !.pc = "done", !.panic = r.panic]

\* the remainder loop and the return
DistRemainder ==
    /\ dcall.pc = "remainder"
    /\ ~dcall.panic
    /\ DistAfterRemainder(RemainderStep(dcall.total_to_dist, dcall.dist_for_now,
                                        dcall.recvarray))
    /\ UNCHANGED <<buy_orders, sell_orders, price_per_unit, next_uuid, last, eco>>

DistNext == DistChunkPass \/ DistRemainder

SpecDistribute == DistInit /\ [][DistNext]_vars

(***************************************************************************)
(* Orders whose prestige has a fractional part: 5.2, 5.9, -0.5, 0.5, 0.0   *)
(* and -1.0, each for the whole of MaxQty, registered on either side.      *)
(***************************************************************************)
TierPrestiges == {<<26, 5>>, <<59, 10>>, <<-1, 2>>, <<1, 2>>, <<0, 1>>, <<-1, 1>>}

TiersRegister == \E otype \in OrderTypes, prestige \in TierPrestiges :
                     register_order(otype, MaxQty, prestige)

TiersNext == TiersRegister \/ run_trade

SpecTiers == Init /\ [][TiersNext]_vars

(***************************************************************************)
(* One step of the loop 'main: run_trade on a book of one buy tier and one *)
(* sell tier, whose orders may carry fills of earlier steps.               *)
(***************************************************************************)
MaxTierLen == 2     \* most orders of a tier in a single step

\* what an order can have traded before the step: nothing, one unit, all but one
\* unit, everything
TierOrderStates ==
    {<<q, t>> \in Quantities \X (0..MaxQty) : t <= q /\ t \in {0, 1, q - 1, q}}

TierShapes == UNION {[1..n -> TierOrderStates] : n \in 1..MaxTierLen}

\* the orders of a tier of the given shape, with the identifiers first + 1, first + 2, ...
TierOf(shape, first) ==
    [i \in DOMAIN shape |->
        [OrderInfoNew(first + i, shape[i][1], <<1, 2>>) EXCEPT !.traded_quantity = shape[i][2]]]

TierStepInit ==
    /\ \E b \in TierShapes : \E s \in TierShapes :
          /\ buy_orders = TierOf(b, 0)
          /\ sell_orders = TierOf(s, Len(b))
          /\ next_uuid = Len(b) + Len(s)
    /\ price_per_unit \in Prices
    /\ last = NoCall
    /\ dcall = NoDist
    /\ eco = NoMain

SpecTierStep == TierStepInit /\ [][run_trade]_vars

(***************************************************************************)
(* The two loops that have to terminate, side by side: the market with     *)
(* orders registered and run_trade called (its 'main loop counted in       *)
(* last.iters), and the stand-alone distribute call followed pass by pass. *)
(***************************************************************************)
TermInit == Init \/ DistInit

TermMarket == dcall.pc = "idle" /\ (Register \/ run_trade)

TermNext == TermMarket \/ DistNext

SpecTermination == TermInit /\ [][TermNext]_vars

(***************************************************************************)
(* fn main: the three agents, the two markets and the tick loop.  eco.pc   *)
(* is the statement of the loop body that runs next.  Money is an f64 in   *)
(* the source; every amount main computes is a whole number far below      *)
(* 2^53, so the model computes it in integers.  standard_of_living, which  *)
(* nothing reads, is left out.  eco.posted and eco.retrieved log the calls *)
(* of register_order and retrieve_order_result the agents make in a tick.  *)
(***************************************************************************)
\* for _ in 0..20
Ticks == 20

\* u64::min
min(a, b) == IF a <= b THEN a ELSE b

\* (num / den) as u64, for den > 0: truncated, and 0 for a negative quotient
F64AsU64(num, den) == IF num <= 0 THEN 0 ELSE num \div den

\* HashMap::new() / HashMap::clear()
EmptyMap == [g \in {} |-> <<>>]

\* the state main builds before the loop
MainEco ==
    [pc |-> "produce_rgo", tick |-> 0, uuids |-> 0, posted |-> {}, retrieved |-> <<>>,
     traded |-> [g \in {0, 1} |-> 0], held |-> <<>>,
     rgo |-> [quantity |-> 1000, target_quantity |-> 1000, max_production_rate |-> 500,
              per_unit_cost |-> 1, fixed_cost |-> 500, money_balance |-> 10000,
              prestige |-> <<0, 1>>, orders_uuid |-> <<>>],
     factory |-> [input_quantity |-> 600, output_quantity |-> 600,
                  target_input_quantity |-> 900, target_output_quantity |-> 900,
                  conversion_rateo |-> <<1, 2>>, target_input_per_tick |-> 300,
                  per_input_unit_cost |-> 1, fixed_cost |-> 500,
                  money_balance |-> 10000, prestige |-> <<0, 1>>,
                  input_orders_uuid |-> <<>>, output_orders_uuid |-> <<>>],
     pop |-> [goods_inventory |-> [g \in {0, 1} |-> IF g = 0 THEN 600 ELSE 450],
              goods_priority_order |-> <<0, 1>>,
              goods_desired_inventory |-> [g \in {0, 1} |-> IF g = 0 THEN 400 ELSE 300],
              consumed_goods_per_tick |-> [g \in {0, 1} |-> IF g = 0 THEN 200 ELSE 150],
              money_balance |-> 6000, prestige |-> <<-1, 1>>,
              goods_buy_orders_uuid |-> EmptyMap],
     markets |-> [g \in {0, 1} |->
                    [good_uid |-> g, price_per_unit |-> IF g = 0 THEN 2 ELSE 10,
                     buy_orders |-> <<>>, sell_orders |-> <<>>]]]

\* a panic ends the program
Panic(e) == [e EXCEPT !.pc = "panicked"]

\* the statement that follows, unless the program has panicked
Then(e, pc) == IF e.pc = "panicked" THEN e ELSE [e EXCEPT !.pc = pc]

\* market.register_order(otype, quantity, prestige) called by agent on the market of
\* good; the identifier it returns is e.uuids + 1
MarketRegister(e, agent, good, otype, quantity, prestige) ==
    [e EXCEPT !.uuids = @ + 1,
              !.posted = @ \cup {<<agent, good, e.uuids + 1>>},
              !.markets[good].buy_orders =
                  IF otype = "Buy"
                  THEN Append(@, OrderInfoNew(e.uuids + 1, quantity, prestige)) ELSE @,
              !.markets[good].sell_orders =
                  IF otype = "Sell"
                  THEN Append(@, OrderInfoNew(e.uuids + 1, quantity, prestige)) ELSE @]

\* market.retrieve_order_result(uuid) on the market of good
MarketRetrieve(e, good, uuid) ==
    retrieve_order_result(e.markets[good].buy_orders, e.markets[good].sell_orders,
                          e.markets[good].price_per_unit, uuid)

\* the call of retrieve_order_result by agent is logged
Retrieved(e, agent, good, uuid) ==
    [e EXCEPT !.retrieved = Append(@, <<agent, good, uuid>>)]

(* RGOSingle *)
RgoOutputValue(rgo) ==
    min(rgo.max_production_rate,
        F64AsU64(rgo.money_balance - rgo.fixed_cost, rgo.per_unit_cost))

RgoProduceAndConsume(rgo) ==
    [rgo EXCEPT !.quantity = @ + RgoOutputValue(rgo),
                !.money_balance = @ - (RgoOutputValue(rgo) * rgo.per_unit_cost
                                       + rgo.fixed_cost)]

RgoPushUuid(e, uuid) == [e EXCEPT !.rgo.orders_uuid = Append(@, uuid)]

RgoPostOrders(e) ==
    IF e.rgo.quantity < e.rgo.target_quantity THEN e
    ELSE RgoPushUuid(MarketRegister(e, "rgo", 0, "Sell",
                                    e.rgo.quantity - e.rgo.target_quantity,
                                    e.rgo.prestige),
                     e.uuids + 1)

RECURSIVE RgoRetrieveOrders(_, _)
RgoTakeResult(e, result, rest) ==
    IF ~result.some \/ result.ordertype = "Buy" \/ e.rgo.quantity < result.traded_quantity
    THEN Panic(e)
    ELSE RgoRetrieveOrders([e EXCEPT !.rgo.quantity = @ - result.traded_quantity,
                                     !.rgo.money_balance = @ + result.total_cost],
                           rest)

\* for uuid in self.orders_uuid.iter() { ... } self.orders_uuid.clear()
RgoRetrieveOrders(e, uuids) ==
    IF uuids = <<>> THEN [e EXCEPT !.rgo.orders_uuid = <<>>]
    ELSE RgoTakeResult(Retrieved(e, "rgo", 0, Head(uuids)),
                       MarketRetrieve(e, 0, Head(uuids)), Tail(uuids))

(* ProductorOneToOne *)
FactoryInputValue(f) ==
    min(min(f.input_quantity, f.target_input_per_tick),
        F64AsU64(f.money_balance - f.fixed_cost, f.per_input_unit_cost))

\* output_value = (input_value as f64 * self.conversion_rateo) as u64
FactoryProduceAndConsume(f) ==
    [f EXCEPT !.input_quantity = @ - FactoryInputValue(f),
              !.output_quantity =
                  @ + (FactoryInputValue(f) * f.conversion_rateo[1]) \div f.conversion_rateo[2],
              !.money_balance = @ - (FactoryInputValue(f) * f.per_input_unit_cost
                                     + f.fixed_cost)]

\* required, cut to what the money buys when required * price exceeds money_balance
FactoryInputRequired(f, price) ==
    IF (f.target_input_quantity - f.input_quantity) * price > f.money_balance
    THEN F64AsU64(f.money_balance, price)
    ELSE f.target_input_quantity - f.input_quantity

FactoryPushInput(e, uuid) == [e EXCEPT !.factory.input_orders_uuid = Append(@, uuid)]

FactoryPushOutput(e, uuid) == [e EXCEPT !.factory.output_orders_uuid = Append(@, uuid)]

FactoryPostInput(e) ==
    IF e.factory.input_quantity < e.factory.target_input_quantity
    THEN FactoryPushInput(
            MarketRegister(e, "factory", 0, "Buy",
                           FactoryInputRequired(e.factory, e.markets[0].price_per_unit),
                           e.factory.prestige),
            e.uuids + 1)
    ELSE e

FactoryPostOutput(e) ==
    IF e.factory.output_quantity > e.factory.target_output_quantity
    THEN FactoryPushOutput(
            MarketRegister(e, "factory", 1, "Sell",
                           e.factory.output_quantity - e.factory.target_output_quantity,
                           e.factory.prestige),
            e.uuids + 1)
    ELSE e

FactoryPostOrders(e) == FactoryPostOutput(FactoryPostInput(e))

RECURSIVE FactoryRetrieveInput(_, _)
FactoryTakeInput(e, result, rest) ==
    IF ~result.some \/ result.ordertype # "Buy" THEN Panic(e)
    ELSE FactoryRetrieveInput(
            [e EXCEPT !.factory.input_quantity = @ + result.traded_quantity,
                      !.factory.money_balance = @ - result.total_cost],
            rest)

FactoryRetrieveInput(e, uuids) ==
    IF uuids = <<>> THEN [e EXCEPT !.factory.input_orders_uuid = <<>>]
    ELSE FactoryTakeInput(Retrieved(e, "factory", 0, Head(uuids)),
                          MarketRetrieve(e, 0, Head(uuids)), Tail(uuids))

RECURSIVE FactoryRetrieveOutput(_, _)
FactoryTakeOutput(e, result, rest) ==
    IF \/ ~result.some \/ result.ordertype # "Sell"
       \/ e.factory.output_quantity < result.traded_quantity
    THEN Panic(e)
    ELSE FactoryRetrieveOutput(
            [e EXCEPT !.factory.output_quantity = @ - result.traded_quantity,
                      !.factory.money_balance = @ + result.total_cost],
            rest)

FactoryRetrieveOutput(e, uuids) ==
    IF uuids = <<>> THEN [e EXCEPT !.factory.output_orders_uuid = <<>>]
    ELSE FactoryTakeOutput(Retrieved(e, "factory", 1, Head(uuids)),
                           MarketRetrieve(e, 1, Head(uuids)), Tail(uuids))

FactoryRetrieveAfterInput(e) ==
    IF e.pc = "panicked" THEN e
    ELSE FactoryRetrieveOutput(e, e.factory.output_orders_uuid)

FactoryRetrieveOrders(e) ==
    FactoryRetrieveAfterInput(FactoryRetrieveInput(e, e.factory.input_orders_uuid))

(* BasicPop *)
\* if *inventory >= *consumed_per_tick { *inventory -= consumed_per_tick; }, good by good
PopProduceAndConsume(pop) ==
    [pop EXCEPT !.goods_inventory =
        [g \in DOMAIN @ |-> IF @[g] >= pop.consumed_goods_per_tick[g]
                            THEN @[g] - pop.consumed_goods_per_tick[g]
                            ELSE @[g]]]

\* (target_quantity - inventory).min(enough_money_to_buy)
PopRequired(pop, good, price, actual_expense) ==
    min(pop.goods_desired_inventory[good] - pop.goods_inventory[good],
        F64AsU64(pop.money_balance - actual_expense, price))

\* entry(good).and_modify(|v| v.push(uuid)).or_insert(Vec::new()): the uuid is pushed
\* onto the Vec of an entry that exists; a new entry gets an empty Vec
EntryAndModifyOrInsert(map, good, uuid) ==
    IF good \in DOMAIN map
    THEN [map EXCEPT ![good] = Append(@, uuid)]
    ELSE [g \in DOMAIN map \cup {good} |-> IF g = good THEN <<>> ELSE map[g]]

PopRecordUuid(e, good, uuid) ==
    [e EXCEPT !.pop.goods_buy_orders_uuid = EntryAndModifyOrInsert(@, good, uuid)]

PopPostGood(e, good, required) ==
    PopRecordUuid(MarketRegister(e, "pop", good, "Buy", required, e.pop.prestige),
                  good, e.uuids + 1)

\* for good in self.goods_priority_order.iter() { ... }, from its i-th good on
RECURSIVE PopPostFrom(_, _, _)
PopPostNext(e, i, good, required, actual_expense) ==
    PopPostFrom(PopPostGood(e, good, required), i + 1,
                actual_expense + required * e.markets[good].price_per_unit)

PopPostFrom(e, i, actual_expense) ==
    IF i > Len(e.pop.goods_priority_order) THEN e
    ELSE IF e.pop.goods_inventory[e.pop.goods_priority_order[i]]
              >= e.pop.goods_desired_inventory[e.pop.goods_priority_order[i]]
    THEN PopPostFrom(e, i + 1, actual_expense)
    ELSE PopPostNext(e, i, e.pop.goods_priority_order[i],
                     PopRequired(e.pop, e.pop.goods_priority_order[i],
                                 e.markets[e.pop.goods_priority_order[i]].price_per_unit,
                                 actual_expense),
                     actual_expense)

PopPostOrders(e) == PopPostFrom(e, 1, 0)

\* for (good_uid, uuids) in self.goods_buy_orders_uuid.iter() { for uuid in uuids ... },
\* the map yielding its entries in the order goods; then the map is cleared
RECURSIVE PopRetrieveGoods(_, _)
RECURSIVE PopRetrieveUuids(_, _, _, _)
PopTakeResult(e, good, result, uuids, goods) ==
    IF ~result.some \/ result.ordertype = "Sell" THEN Panic(e)
    ELSE PopRetrieveUuids(
            [e EXCEPT !.pop.goods_inventory[good] = @ + result.traded_quantity,
                      !.pop.money_balance = @ - result.total_cost],
            good, uuids, goods)

PopRetrieveUuids(e, good, uuids, goods) ==
    IF uuids = <<>> THEN PopRetrieveGoods(e, goods)
    ELSE PopTakeResult(Retrieved(e, "pop", good, Head(uuids)), good,
                       MarketRetrieve(e, good, Head(uuids)), Tail(uuids), goods)

PopRetrieveGoods(e, goods) ==
    IF goods = <<>> THEN [e EXCEPT !.pop.goods_buy_orders_uuid = EmptyMap]
    ELSE PopRetrieveUuids(e, Head(goods), e.pop.goods_buy_orders_uuid[Head(goods)],
                          Tail(goods))

(* the body of the loop of main, statement by statement *)
MainInit == MarketIdle /\ dcall = NoDist /\ eco = MainEco

MainStep(e) ==
    /\ eco' = e
    /\ UNCHANGED <<buy_orders, sell_orders, price_per_unit, next_uuid, last, dcall>>

RgoProduce ==
    /\ eco.pc = "produce_rgo"
    /\ MainStep([eco EXCEPT !.rgo = RgoProduceAndConsume(@), !.pc = "produce_factory"])

FactoryProduce ==
    /\ eco.pc = "produce_factory"
    /\ MainStep([eco EXCEPT !.factory = FactoryProduceAndConsume(@), !.pc = "produce_pop"])

PopProduce ==
    /\ eco.pc = "produce_pop"
    /\ MainStep([eco EXCEPT !.pop = PopProduceAndConsume(@), !.pc = "post_rgo"])

RgoPost == eco.pc = "post_rgo" /\ MainStep(Then(RgoPostOrders(eco), "post_factory"))

FactoryPost == eco.pc = "post_factory" /\ MainStep(Then(FactoryPostOrders(eco), "post_pop"))

PopPost == eco.pc = "post_pop" /\ MainStep(Then(PopPostOrders(eco), "run_trade_0"))

\* what the agents hold: their inventories and their money
Holdings(e) ==
    [rgo_quantity |-> e.rgo.quantity, factory_input |-> e.factory.input_quantity,
     factory_output |-> e.factory.output_quantity,
     pop_inventory |-> e.pop.goods_inventory,
     rgo_money |-> e.rgo.money_balance, factory_money |-> e.factory.money_balance,
     pop_money |-> e.pop.money_balance]

RunTradePc(g) == IF g = 0 THEN "run_trade_0" ELSE "run_trade_1"

\* let traded = market.run_trade().unwrap()
AfterRunTrade(e, g, r) ==
    IF r.panic THEN Panic(e)
    ELSE [e EXCEPT !.markets[g].buy_orders = r.buy, !.markets[g].sell_orders = r.sell,
                   !.traded[g] = r.ret,
                   !.held = IF g = 0 THEN @ ELSE Holdings(e),
                   !.pc = IF g = 0 THEN "run_trade_1" ELSE "retrieve_rgo"]

MainRunTrade(g) ==
    /\ eco.pc = RunTradePc(g)
    /\ \E buykeys \in Orderings(TierKeys(eco.markets[g].buy_orders)) :
       \E sellkeys \in Orderings(TierKeys(eco.markets[g].sell_orders)) :
          MainStep(AfterRunTrade(eco, g,
                       RunTradeResult(eco.markets[g].buy_orders,
                                      eco.markets[g].sell_orders, buykeys, sellkeys)))

RgoRetrieve ==
    /\ eco.pc = "retrieve_rgo"
    /\ MainStep(Then(RgoRetrieveOrders(eco, eco.rgo.orders_uuid), "retrieve_factory"))

FactoryRetrieve ==
    /\ eco.pc = "retrieve_factory"
    /\ MainStep(Then(FactoryRetrieveOrders(eco), "retrieve_pop"))

PopRetrieve ==
    /\ eco.pc = "retrieve_pop"
    /\ \E goods \in Orderings(DOMAIN eco.pop.goods_buy_orders_uuid) :
          MainStep(Then(PopRetrieveGoods(eco, goods), "clear_state"))

\* for market in markets.iter_mut() { market.clear_state(); } and the next round of
\* the loop, or the end of it
MainClearState ==
    /\ eco.pc = "clear_state"
    /\ MainStep([eco EXCEPT
            !.markets = [g \in DOMAIN @ |->
                            [@[g] EXCEPT !.buy_orders = <<>>, !.sell_orders = <<>>]],
            !.posted = {}, !.retrieved = <<>>,
            !.tick = @ + 1,
            !.pc = IF eco.tick + 1 < Ticks THEN "produce_rgo" ELSE "plots"])

MainNext ==
    \/ RgoProduce \/ FactoryProduce \/ PopProduce
    \/ RgoPost \/ FactoryPost \/ PopPost
    \/ \E g \in {0, 1} : MainRunTrade(g)
    \/ RgoRetrieve \/ FactoryRetrieve \/ PopRetrieve
    \/ MainClearState

SpecMain == MainInit /\ [][MainNext]_vars

(***************************************************************************)
(* Properties.                                                             *)
(***************************************************************************)
Min(a, b) == IF a <= b THEN a ELSE b

TradedTotal(arr) == SumSeq([i \in DOMAIN arr |-> arr[i].traded_quantity])

Uuids(orders) == {orders[i].uuid : i \in DOMAIN orders}

\* traded_quantity of the order uuid in orders
TradedOf(orders, uuid) == orders[Find(orders, uuid)].traded_quantity

\* the sum, over the orders of post, of what their traded_quantity gained since pre
FillDelta(pre, post) ==
    SumSeq([i \in DOMAIN post |-> post[i].traded_quantity - TradedOf(pre, post[i].uuid)])

RanTrade == last.op = "run_trade" /\ ~last.panic

TierCount(orders) == Cardinality(TierKeys(orders))

\* C1: whenever run_trade has returned, the value it returned equals the total gain
\* of traded_quantity of the sell orders during the call and equals the total gain
\* of the buy orders during the call.
C1_Conservation ==
    RanTrade =>
        /\ Uuids(buy_orders) \subseteq Uuids(last.pre_buy)
        /\ Uuids(sell_orders) \subseteq Uuids(last.pre_sell)
        /\ last.ret = FillDelta(last.pre_sell, sell_orders)
        /\ last.ret = FillDelta(last.pre_buy, buy_orders)

\* a run over two buy tiers that traded several units with a rationed sell tier
C1_Witness ==
    /\ RanTrade
    /\ last.ret >= 2
    /\ TierCount(last.pre_buy) = 2
    /\ \E i \in DOMAIN sell_orders : NotFulled(sell_orders[i])

\* C2: in every reachable state every order of the book has
\* 0 <= traded_quantity <= required_quantity.
C2_Bounds ==
    \A i \in DOMAIN (buy_orders \o sell_orders) :
        LET x == (buy_orders \o sell_orders)[i] IN
        0 <= x.traded_quantity /\ x.traded_quantity <= x.required_quantity

\* a chunk pass cut a recipient back: two buy orders of one tier lacking 1 and MaxQty
\* shared MaxQty units, and the large one is left partly filled
C2_Witness ==
    /\ RanTrade
    /\ last.ret = MaxQty
    /\ Len(buy_orders) = 2
    /\ TierCount(buy_orders) = 1
    /\ buy_orders[1].required_quantity = 1 /\ buy_orders[1].traded_quantity = 1
    /\ buy_orders[2].required_quantity = MaxQty
    /\ buy_orders[2].traded_quantity = MaxQty - 1

\* C3 (the claim as stated): after run_trade the book holds every order it held
\* before the call, under its identifier.
C3_IdentifiersPreserved ==
    last.op = "run_trade" =>
        /\ Uuids(last.pre_buy) \subseteq Uuids(buy_orders)
        /\ Uuids(last.pre_sell) \subseteq Uuids(sell_orders)

\* C4 (the claim as stated): after run_trade, on neither side did an order of a
\* lower tier gain traded_quantity in the call while an order of a strictly higher
\* tier of that side is left not fully filled.
PriorityServed(pre, post) ==
    \A i, j \in DOMAIN post :
        (/\ AsI64(post[i].prestige) < AsI64(post[j].prestige)
         /\ post[i].traded_quantity > TradedOf(pre, post[i].uuid))
        => ~NotFulled(post[j])

C4_HigherWeightFirst ==
    RanTrade =>
        /\ PriorityServed(last.pre_buy, buy_orders)
        /\ PriorityServed(last.pre_sell, sell_orders)

\* C5: when both sides are non-empty, run_trade returns the smaller of the two
\* sides' total missing quantity (required - traded, summed) as it was before the
\* call, whatever the order in which the tiers are visited.
C5_MaximalFill ==
    (last.op = "run_trade" /\ last.pre_buy # <<>> /\ last.pre_sell # <<>>) =>
        /\ ~last.panic
        /\ last.ret = Min(MissingTotal(last.pre_buy), MissingTotal(last.pre_sell))

\* a run with two buy tiers in which the sell side was the smaller one and both
\* buy tiers were needed to absorb it
C5_Witness ==
    /\ RanTrade
    /\ TierCount(last.pre_buy) = 2
    /\ last.ret > 0
    /\ last.ret = MissingTotal(last.pre_sell)
    /\ last.ret < MissingTotal(last.pre_buy)
    /\ \A i \in DOMAIN buy_orders : buy_orders[i].traded_quantity > 0

\* C6: distribute called with total_to_dist no larger than what the recipients
\* lack returns total_to_dist, raises the recipients' traded_quantity by
\* total_to_dist in total, and leaves no recipient above its required_quantity.
C6_RationingExact ==
    (dcall.pc = "done" /\ dcall.total_to_dist <= MissingTotal(dcall.recv0)) =>
        /\ ~dcall.panic
        /\ dcall.dist_for_now = dcall.total_to_dist
        /\ TradedTotal(dcall.recvarray) - TradedTotal(dcall.recv0) = dcall.total_to_dist
        /\ \A i \in DOMAIN dcall.recvarray :
              /\ dcall.recvarray[i].traded_quantity <= dcall.recvarray[i].required_quantity
              /\ dcall.recvarray[i].traded_quantity >= dcall.recv0[i].traded_quantity
        /\ distribute(dcall.total_to_dist, dcall.recv0).arr = dcall.recvarray
        /\ distribute(dcall.total_to_dist, dcall.recv0).ret = dcall.total_to_dist

\* a call that took two chunk passes, cut a recipient back in one of them, and
\* left a recipient partly filled
C6_Witness ==
    /\ dcall.pc = "done"
    /\ dcall.total_to_dist <= MissingTotal(dcall.recv0)
    /\ dcall.passes >= 3
    /\ Len(dcall.recv0) = 3
    /\ \E i \in DOMAIN dcall.recvarray :
          /\ ~NotFulled(dcall.recvarray[i])
          /\ dcall.recv0[i].traded_quantity < dcall.recv0[i].required_quantity
    /\ \E i \in DOMAIN dcall.recvarray : NotFulled(dcall.recvarray[i])

AllUntraded(orders) == \A i \in DOMAIN orders : orders[i].traded_quantity = 0

RequiredTotal(orders) == SumSeq([i \in DOMAIN orders |-> orders[i].required_quantity])

\* the order is in post and fully filled, or it asked for nothing
ClearedIn(o, post) ==
    \/ Find(post, o.uuid) # 0 /\ ~NotFulled(post[Find(post, o.uuid)])
    \/ o.required_quantity = 0

C8_NoTradeOnEmptySide ==
    (last.op = "run_trade" /\ (last.pre_buy = <<>> \/ last.pre_sell = <<>>)) =>
        /\ ~last.panic
        /\ last.ret = 0
        /\ buy_orders = last.pre_buy
        /\ sell_orders = last.pre_sell
        /\ \A i \in DOMAIN buy_orders :
              retrieve_order_result(buy_orders, sell_orders, price_per_unit,
                                    buy_orders[i].uuid) = SomeOrderResult("Buy", 0, 0)
        /\ \A i \in DOMAIN sell_orders :
              retrieve_order_result(buy_orders, sell_orders, price_per_unit,
                                    sell_orders[i].uuid) = SomeOrderResult("Sell", 0, 0)

\* run_trade was called on a buy-only book of two orders
C8_Witness ==
    /\ last.op = "run_trade"
    /\ last.pre_sell = <<>>
    /\ Len(last.pre_buy) = 2
    /\ \E i \in DOMAIN buy_orders : buy_orders[i].required_quantity > 0

\* C9 (the claim as stated): once retrieve_order_result has returned the result
\* of an order, a second retrieve_order_result of the same identifier returns
\* None.  The call changes nothing, so what the second call returns is
\* retrieve_order_result evaluated in the state the first call leaves.
C9_SecondRetrieveNotFound ==
    (last.op = "retrieve_order_result" /\ last.result.some) =>
        retrieve_order_result(buy_orders, sell_orders, price_per_unit, last.uuid) = None

NotFoundAll(buys, sells, price, ids) ==
    \A uuid \in ids : retrieve_order_result(buys, sells, price, uuid) = None

\* C10: clear_state leaves both sequences empty, whatever was retrieved before;
\* from then on retrieve_order_result returns None for every identifier handed
\* out before the clear (an identifier that is not found is never found later),
\* and it returns None for an identifier that was never handed out.
C10_ClearState ==
    [][/\ last'.op = "clear_state" =>
            /\ buy_orders' = <<>> /\ sell_orders' = <<>>
            /\ NotFoundAll(buy_orders', sell_orders', price_per_unit', 1..(MaxUuid + 1))
       /\ \A uuid \in 1..next_uuid :
            retrieve_order_result(buy_orders, sell_orders, price_per_unit, uuid) = None
            => retrieve_order_result(buy_orders', sell_orders', price_per_unit', uuid) = None
       /\ NotFoundAll(buy_orders', sell_orders', price_per_unit',
                      (next_uuid' + 1)..(MaxUuid + 1))
       /\ last'.op = "retrieve_order_result" =>
            last'.result = retrieve_order_result(buy_orders, sell_orders, price_per_unit,
                                                 last'.uuid)
      ]_vars

\* after a clear_state and a new registration, an identifier handed out before
\* the clear was looked up and not found
C10_Witness ==
    /\ last.op = "retrieve_order_result"
    /\ ~last.result.some
    /\ last.uuid < next_uuid
    /\ Len(buy_orders) + Len(sell_orders) = 1
    /\ (buy_orders \o sell_orders)[1].uuid = next_uuid
    /\ next_uuid = 2

\* the identifiers a side holds were in it before the last call, or the last call
\* registered them under that side
SideKept(otype, pre, post) ==
    Uuids(post) \subseteq
        Uuids(pre) \cup (IF last.op = "register_order" /\ last.args[1] = otype
                         THEN {last.uuid} ELSE {})

\* what retrieve_order_result has to return for the order x of the side otype
ExpectedResult(otype, x) ==
    SomeOrderResult(otype, x.traded_quantity, x.traded_quantity * price_per_unit)

\* C11: retrieve_order_result of an identifier in the book returns the side the
\* order was registered under (an identifier enters a side only by a registration
\* under that side), the traded_quantity the order has in the book, and
\* traded_quantity times price_per_unit, and it leaves the book alone; for an order
\* just registered that is traded quantity 0 and cost 0.
C11_ResultContent ==
    /\ last.op # "clear_state" =>
          /\ SideKept("Buy", last.pre_buy, buy_orders)
          /\ SideKept("Sell", last.pre_sell, sell_orders)
    /\ last.op = "retrieve_order_result" =>
          /\ buy_orders = last.pre_buy /\ sell_orders = last.pre_sell
          /\ \A i \in DOMAIN buy_orders :
                buy_orders[i].uuid = last.uuid
                => last.result = ExpectedResult("Buy", buy_orders[i])
          /\ \A i \in DOMAIN sell_orders :
                sell_orders[i].uuid = last.uuid
                => last.result = ExpectedResult("Sell", sell_orders[i])
    /\ last.op = "register_order" =>
          retrieve_order_result(buy_orders, sell_orders, price_per_unit, last.uuid)
              = SomeOrderResult(last.args[1], 0, 0)

\* the result of a partly filled sell order was retrieved: one unit of MaxQty, at
\* the price of one unit
C11_Witness ==
    /\ last.op = "retrieve_order_result"
    /\ last.result = SomeOrderResult("Sell", 1, price_per_unit)
    /\ \E i \in DOMAIN sell_orders :
          /\ sell_orders[i].uuid = last.uuid
          /\ sell_orders[i].required_quantity = MaxQty

\* no identifier occurs twice in the book, on one side or across the sides
UuidsUnique(orders) ==
    \A i, j \in DOMAIN orders : orders[i].uuid = orders[j].uuid => i = j

\* C12: register_order(otype, quantity, prestige) appends OrderInfo::new(uuid,
\* quantity, prestige), with traded_quantity 0, to the side otype and leaves every
\* other order and the other side as they were; the uuid it returns is in neither
\* sequence before the call; and in every reachable state no identifier occurs
\* twice in buy_orders and sell_orders taken together.
C12_RegisterOrder ==
    /\ UuidsUnique(buy_orders \o sell_orders)
    /\ last.op = "register_order" =>
          /\ last.uuid \notin Uuids(last.pre_buy) \cup Uuids(last.pre_sell)
          /\ last.args[1] = "Buy" =>
                /\ buy_orders = Append(last.pre_buy,
                                       OrderInfoNew(last.uuid, last.args[2], last.args[3]))
                /\ sell_orders = last.pre_sell
          /\ last.args[1] = "Sell" =>
                /\ sell_orders = Append(last.pre_sell,
                                        OrderInfoNew(last.uuid, last.args[2], last.args[3]))
                /\ buy_orders = last.pre_buy

\* an order of quantity 0 was registered in a book of two orders that have traded
C12_Witness ==
    /\ last.op = "register_order"
    /\ last.args[2] = 0
    /\ Len(last.pre_buy) = 1 /\ Len(last.pre_sell) = 1
    /\ last.pre_buy[1].traded_quantity > 0
    /\ Len(buy_orders) + Len(sell_orders) = 3

\* the book of the scenario, untraded: buy orders of 100 and 50 units in
\* either order, one sell order of 90 units
ScenarioBook(buys, sells) ==
    /\ Len(buys) = 2 /\ Len(sells) = 1
    /\ {buys[1].required_quantity, buys[2].required_quantity} = {100, 50}
    /\ sells[1].required_quantity = 90
    /\ AllUntraded(buys) /\ AllUntraded(sells)

ScenarioRan == last.op = "run_trade" /\ ScenarioBook(last.pre_buy, last.pre_sell)

\* traded_quantity of the order of orders that requires q
TradedOfRequest(orders, q) ==
    (CHOOSE o \in {orders[i] : i \in DOMAIN orders} : o.required_quantity = q).traded_quantity

\* C13: run_trade on the book B1(100), B2(50), S1(90), all of prestige 5, returns
\* 90, leaves S1 with traded_quantity 90, leaves B1 and B2 with traded quantities
\* that sum to 90, and neither above its required_quantity.
C13_ScenarioTotals ==
    ScenarioRan =>
        /\ ~last.panic
        /\ last.ret = 90
        /\ Len(sell_orders) = 1 /\ sell_orders[1].traded_quantity = 90
        /\ Len(buy_orders) = 2
        /\ TradedTotal(buy_orders) = 90
        /\ \A i \in DOMAIN buy_orders :
              buy_orders[i].traded_quantity <= buy_orders[i].required_quantity

\* the scenario ran with B2 registered before B1
C13_Witness ==
    /\ ScenarioRan /\ ~last.panic
    /\ last.pre_buy[1].required_quantity = 50
    /\ last.ret = 90

\* C14 (the claim as stated): after run_trade on the scenario book the traded
\* quantities of (B1, B2) are (60, 30) or (59, 31).
C14_ScenarioSplitProportional ==
    ScenarioRan =>
        <<TradedOfRequest(buy_orders, 100), TradedOfRequest(buy_orders, 50)>>
            \in {<<60, 30>>, <<59, 31>>}

\* C14 (amended): after run_trade on the scenario book the traded quantities of
\* (B1, B2) are (45, 45), whichever of the two was registered first: one chunk pass
\* gives each of the two orders 90 / 2 units and nothing is left for the remainder
\* loop.
C14_ScenarioSplitEqual ==
    ScenarioRan =>
        /\ ~last.panic
        /\ Len(buy_orders) = 2
        /\ TradedOfRequest(buy_orders, 100) = 45
        /\ TradedOfRequest(buy_orders, 50) = 45

\* the scenario ran with B1 registered before B2 and all 90 units were placed
C14_Witness ==
    /\ ScenarioRan /\ ~last.panic
    /\ last.pre_buy[1].required_quantity = 100
    /\ TradedTotal(buy_orders) = 90
    /\ sell_orders[1].traded_quantity = 90

\* some order of orders is partly filled
SomePartlyFilled(orders) ==
    \E i \in DOMAIN orders :
        0 < orders[i].traded_quantity /\ NotFulled(orders[i])

\* C15: no run_trade panics, from any reachable book: neither assert_eq! of
\* trade_loop and run_trade fails and no u64 subtraction underflows (the fold of
\* required - traded, total_to_dist - dist_for_now, and eq_chunks - rem, which
\* cannot underflow while traded_quantity <= required_quantity).
C15_NoPanic ==
    /\ last.op = "run_trade" => ~last.panic
    /\ \A i \in DOMAIN (last.pre_buy \o last.pre_sell) :
          (last.pre_buy \o last.pre_sell)[i].traded_quantity
              <= (last.pre_buy \o last.pre_sell)[i].required_quantity

\* run_trade ran on a book with a partly filled buy order and two sell tiers, one
\* of them already full, and traded
C15_Witness ==
    /\ RanTrade
    /\ SomePartlyFilled(last.pre_buy)
    /\ TierCount(last.pre_sell) = 2
    /\ \E i \in DOMAIN last.pre_sell : ~NotFulled(last.pre_sell[i])
    /\ last.ret > 0

\* the most iterations 'main can take when every iteration but the last moves a
\* side to its next tier: the first tier of each side is taken before the loop
MainLoopBound(buys, sells) ==
    IF buys = <<>> \/ sells = <<>> THEN 0
    ELSE TierCount(buys) + TierCount(sells) - 1

\* C16: run_trade terminates.  A pass of the chunk loop of distribute that does
\* not leave the loop raises dist_for_now, and the recipients' traded_quantity in
\* total, by at least one unit, and dist_for_now never exceeds total_to_dist, so
\* the loop is left after at most total_to_dist + 1 passes; and the loop 'main
\* takes at most (buy tiers + sell tiers - 1) iterations, every iteration but the
\* last taking the next tier of at least one side.
C16_Termination ==
    [][/\ (dcall.pc = "loop" /\ dcall'.pc = "loop") =>
            /\ dcall'.dist_for_now >= dcall.dist_for_now + 1
            /\ TradedTotal(dcall'.recvarray) >= TradedTotal(dcall.recvarray) + 1
       /\ dcall'.dist_for_now <= dcall'.total_to_dist
       /\ dcall'.passes <= dcall'.total_to_dist + 1
       /\ last'.op = "run_trade" =>
            /\ ~last'.panic
            /\ last'.iters <= MainLoopBound(last'.pre_buy, last'.pre_sell)
            /\ (last'.pre_buy # <<>> /\ last'.pre_sell # <<>>) => last'.iters >= 1
      ]_vars

\* the chunk loop was left after three passes, two of which placed units, with a
\* remainder still to place
C16_Witness ==
    /\ dcall.pc = "remainder"
    /\ dcall.passes = 3
    /\ 0 < dcall.dist_for_now
    /\ dcall.dist_for_now < dcall.total_to_dist
    /\ dcall.total_to_dist <= MissingTotal(dcall.recv0)

\* no order that is in both books has less traded_quantity in post than in pre
NoFillLost(pre, post) ==
    \A i \in DOMAIN post : \A j \in DOMAIN pre :
        post[i].uuid = pre[j].uuid => post[i].traded_quantity >= pre[j].traded_quantity

\* every order that is in both books has the traded_quantity in post it has in pre
FillsKept(pre, post) ==
    \A i \in DOMAIN post : \A j \in DOMAIN pre :
        post[i].uuid = pre[j].uuid => post[i].traded_quantity = pre[j].traded_quantity

\* C17: no step (register_order, run_trade however often, retrieve_order_result)
\* lowers the traded_quantity of an order that is in the book before and after it.
C17_FillMonotone ==
    [][/\ NoFillLost(buy_orders, buy_orders')
       /\ NoFillLost(sell_orders, sell_orders')
       /\ last'.op # "run_trade" =>
            /\ FillsKept(buy_orders, buy_orders')
            /\ FillsKept(sell_orders, sell_orders')
      ]_vars

\* a later run_trade raised the traded_quantity of an order that an earlier
\* run_trade had filled in part
C17_Witness ==
    /\ RanTrade
    /\ \E i \in DOMAIN buy_orders : \E j \in DOMAIN last.pre_buy :
          /\ buy_orders[i].uuid = last.pre_buy[j].uuid
          /\ last.pre_buy[j].traded_quantity > 0
          /\ buy_orders[i].traded_quantity > last.pre_buy[j].traded_quantity

\* C18: a run_trade that follows a run_trade with no other call in between
\* returns 0, does not panic, and leaves the traded_quantity of every order it
\* keeps in the book as it was.
C18_SecondRunTradesNothing ==
    [][(last.op = "run_trade" /\ last'.op = "run_trade") =>
            /\ ~last'.panic
            /\ last'.ret = 0
            /\ FillsKept(buy_orders, buy_orders')
            /\ FillsKept(sell_orders, sell_orders')
      ]_vars

\* run_trade returned 0 on a book in which every identifier handed out so far is
\* an order that has traded, so that no order was registered since the run_trade
\* that filled them, and in which one side still lacks units
C18_Witness ==
    /\ RanTrade
    /\ last.ret = 0
    /\ Len(last.pre_buy) + Len(last.pre_sell) = next_uuid
    /\ next_uuid >= 3
    /\ \A i \in DOMAIN (last.pre_buy \o last.pre_sell) :
          (last.pre_buy \o last.pre_sell)[i].traded_quantity > 0
    /\ MissingTotal(last.pre_buy) > 0

\* how often x occurs in seq
Count(seq, x) == Cardinality({i \in DOMAIN seq : seq[i] = x})

\* C19 (the claim as stated): when the loop of main reaches clear_state, every
\* order an agent registered in this tick has had its result retrieved by that
\* agent exactly once since run_trade.
C19_TickProtocol ==
    eco.pc = "clear_state" =>
        \A o \in eco.posted : Count(eco.retrieved, o) = 1


AllFull(orders) == \A i \in DOMAIN orders : ~NotFulled(orders[i])

\* the step ran on one buy tier and one sell tier and kept their orders
OneTierStep ==
    /\ last.op = "run_trade"
    /\ TierCount(last.pre_buy) = 1 /\ TierCount(last.pre_sell) = 1

\* C21: a step of the loop 'main on a buy tier lacking remaining_demand and a sell
\* tier lacking remaining_supply does not panic and keeps the orders of both tiers;
\* if remaining_supply > remaining_demand every buy order of the tier ends with
\* traded = required and the sell tier's traded quantities grow by remaining_demand
\* in total; if remaining_supply < remaining_demand every sell order ends full and
\* the buy tier's traded quantities grow by remaining_supply; if they are equal
\* every order of both tiers ends full.
C21_ConstrainedTierExhausted ==
    OneTierStep =>
        /\ ~last.panic
        /\ Uuids(buy_orders) = Uuids(last.pre_buy)
        /\ Uuids(sell_orders) = Uuids(last.pre_sell)
        /\ MissingTotal(last.pre_sell) > MissingTotal(last.pre_buy) =>
              /\ AllFull(buy_orders)
              /\ TradedTotal(sell_orders) - TradedTotal(last.pre_sell)
                    = MissingTotal(last.pre_buy)
        /\ MissingTotal(last.pre_sell) < MissingTotal(last.pre_buy) =>
              /\ AllFull(sell_orders)
              /\ TradedTotal(buy_orders) - TradedTotal(last.pre_buy)
                    = MissingTotal(last.pre_sell)
        /\ MissingTotal(last.pre_sell) = MissingTotal(last.pre_buy) =>
              AllFull(buy_orders) /\ AllFull(sell_orders)

\* a step in which two partly filled buy orders were the constrained tier and two
\* sell orders shared the demand, one of them left partly filled
C21_Witness ==
    /\ OneTierStep /\ ~last.panic
    /\ Len(last.pre_buy) = 2 /\ Len(last.pre_sell) = 2
    /\ \A i \in DOMAIN last.pre_buy : SomePartlyFilled(<<last.pre_buy[i]>>)
    /\ MissingTotal(last.pre_sell) > MissingTotal(last.pre_buy)
    /\ MissingTotal(last.pre_buy) >= 2
    /\ AllFull(buy_orders)
    /\ \E i \in DOMAIN sell_orders : NotFulled(sell_orders[i])

\* C22 (the claim as stated): when the agents have retrieved their results in a
\* tick of main, for each good the units the sellers gave up equal the units the
\* buyers received and equal the value run_trade returned for that market, and
\* the money the agents hold in total is what they held before retrieving (what
\* the sellers were paid is what the buyers were charged).  eco.held is what the
\* agents held when the last run_trade of the tick returned.
C22_GoodsAndMoneyConserved ==
    eco.pc = "clear_state" =>
        /\ eco.held.rgo_quantity - eco.rgo.quantity = eco.traded[0]
        /\ (eco.factory.input_quantity - eco.held.factory_input)
              + (eco.pop.goods_inventory[0] - eco.held.pop_inventory[0]) = eco.traded[0]
        /\ eco.held.factory_output - eco.factory.output_quantity = eco.traded[1]
        /\ eco.pop.goods_inventory[1] - eco.held.pop_inventory[1] = eco.traded[1]
        /\ eco.rgo.money_balance + eco.factory.money_balance + eco.pop.money_balance
              = eco.held.rgo_money + eco.held.factory_money + eco.held.pop_money

\* the integer n nearest to zero with the rational p between zero and n: the
\* truncation of p toward zero, stated without the conversion of the program
IsTruncationOf(n, p) ==
    IF p[1] >= 0
    THEN n >= 0 /\ n * p[2] <= p[1] /\ p[1] < (n + 1) * p[2]
    ELSE n <= 0 /\ n * p[2] >= p[1] /\ p[1] > (n - 1) * p[2]

Abs(x) == IF x >= 0 THEN x ELSE -x

SameTruncation(p, q) ==
    \E n \in (-Abs(p[1]))..Abs(p[1]) : IsTruncationOf(n, p) /\ IsTruncationOf(n, q)

\* the orders i and j of the side are in the Vec of one key of the map
SharesTier(orders, i, j) ==
    \E k \in TierKeys(orders) :
        {orders[i].uuid, orders[j].uuid} \subseteq Uuids(Tier(orders, k))

\* traded_quantity of the order uuid in orders, 0 when the order is not there
FillIn(orders, uuid) == IF Find(orders, uuid) = 0 THEN 0 ELSE TradedOf(orders, uuid)

\* two untraded orders on one side against one untraded order on the other
TwoOnOne(two, one) == Len(two) = 2 /\ Len(one) = 1 /\ AllUntraded(two) /\ AllUntraded(one)

\* both of the two orders got a share of the one order's quantity
RationedTogether(two, post) ==
    FillIn(post, two[1].uuid) > 0 /\ FillIn(post, two[2].uuid) > 0

\* C23: two orders of a side are in the same tier exactly when their prestige
\* values are equal after truncation toward zero (5.2 and 5.9 share a key, so do
\* -0.5 and 0.5, 0.0 and -1.0 do not); and when run_trade has run on two untraded
\* orders of one side against one untraded order of the other, all for the same
\* quantity, the two orders share that quantity exactly when their truncated
\* prestige values are equal.
C23_TierGrouping ==
    /\ AsI64(<<26, 5>>) = AsI64(<<59, 10>>)
    /\ AsI64(<<-1, 2>>) = AsI64(<<1, 2>>)
    /\ AsI64(<<0, 1>>) # AsI64(<<-1, 1>>)
    /\ \A orders \in {buy_orders, sell_orders} : \A i, j \in DOMAIN orders :
          SharesTier(orders, i, j) <=> SameTruncation(orders[i].prestige, orders[j].prestige)
    /\ RanTrade /\ TwoOnOne(last.pre_buy, last.pre_sell) =>
          (RationedTogether(last.pre_buy, buy_orders)
              <=> SameTruncation(last.pre_buy[1].prestige, last.pre_buy[2].prestige))
    /\ RanTrade /\ TwoOnOne(last.pre_sell, last.pre_buy) =>
          (RationedTogether(last.pre_sell, sell_orders)
              <=> SameTruncation(last.pre_sell[1].prestige, last.pre_sell[2].prestige))

C23_Witness ==
    /\ RanTrade /\ TwoOnOne(last.pre_buy, last.pre_sell)
    /\ last.pre_buy[1].prestige = <<-1, 2>> /\ last.pre_buy[2].prestige = <<1, 2>>
    /\ RationedTogether(last.pre_buy, buy_orders)
    /\ Len(buy_orders) = 2

\* C24 (the claim as stated): in every reachable state of the market, whatever
\* the interleaving of register_order, run_trade, retrieve_order_result and
\* clear_state, the traded quantities of the buy orders in the book and those of
\* the sell orders in the book have the same sum.
C24_BookBalance == TradedTotal(buy_orders) = TradedTotal(sell_orders)

\* distribute(total_to_dist, recv) returns the smaller of the pool and what the
\* recipients lack, and leaves every recipient at or below its required_quantity
PoolRationed(total_to_dist, recv, r) ==
    /\ ~r.panic
    /\ r.ret = Min(total_to_dist, MissingTotal(recv))
    /\ Len(r.arr) = Len(recv)
    /\ TradedTotal(r.arr) - TradedTotal(recv) = r.ret
    /\ \A i \in DOMAIN r.arr : r.arr[i].traded_quantity <= r.arr[i].required_quantity

\* C25: for every recipient array and every total_to_dist, also one larger than
\* what the recipients lack in total, distribute returns min(total_to_dist, sum of
\* required_quantity - traded_quantity) and raises no recipient above its
\* required_quantity.  The call followed step by step, with a pool of up to one
\* unit more than the recipients lack, ends so; and so does distribute on a pool
\* that exceeds what they lack by MaxDistQty and on a pool whose equal chunk
\* exceeds every request (evaluated once for each recipient array, where the call
\* on an empty pool starts).
C25_OversizedPool ==
    /\ dcall.pc = "done" =>
          PoolRationed(dcall.total_to_dist, dcall.recv0,
                       [arr |-> dcall.recvarray, ret |-> dcall.dist_for_now,
                        panic |-> dcall.panic])
    /\ (dcall.pc = "loop" /\ dcall.passes = 0 /\ dcall.total_to_dist = 0) =>
          \A total_to_dist \in {MissingTotal(dcall.recv0) + MaxDistQty,
                               Len(dcall.recv0) * MaxDistQty + 1} :
              PoolRationed(total_to_dist, dcall.recv0, distribute(total_to_dist, dcall.recv0))

\* a pool larger than what three recipients lack, one of them carrying a unit
\* already, handed out in two chunk passes or more
C25_Witness ==
    /\ dcall.pc = "done"
    /\ dcall.total_to_dist > MissingTotal(dcall.recv0)
    /\ Len(dcall.recv0) = 3
    /\ dcall.passes >= 2
    /\ \E i \in DOMAIN dcall.recv0 : dcall.recv0[i].traded_quantity = 1
    /\ MissingTotal(dcall.recv0) > MaxDistQty
    /\ AllFull(dcall.recvarray)

\* what the recipient i received in the call that turned pre into post
Received(pre, post, i) == post[i].traded_quantity - pre[i].traded_quantity

\* C26: when distribute returns, any two recipients that are both still not full
\* received amounts that differ by at most 1, the earlier one never less than the
\* later one; and a recipient that ends full received at most 1 more than any
\* recipient that is still not full.
C26_EvenRationing ==
    (dcall.pc = "done" /\ ~dcall.panic) =>
        \A i, j \in DOMAIN dcall.recvarray :
            /\ (i < j /\ NotFulled(dcall.recvarray[i]) /\ NotFulled(dcall.recvarray[j])) =>
                  /\ Received(dcall.recv0, dcall.recvarray, i)
                        >= Received(dcall.recv0, dcall.recvarray, j)
                  /\ Received(dcall.recv0, dcall.recvarray, i)
                        <= Received(dcall.recv0, dcall.recvarray, j) + 1
            /\ (~NotFulled(dcall.recvarray[i]) /\ NotFulled(dcall.recvarray[j])) =>
                  Received(dcall.recv0, dcall.recvarray, i)
                      <= Received(dcall.recv0, dcall.recvarray, j) + 1

\* three recipients: the first ends full having received something, the other two
\* end not full after chunks of two units or more, and the remainder loop gave the
\* second one unit more than the third
C26_Witness ==
    /\ dcall.pc = "done" /\ ~dcall.panic
    /\ Len(dcall.recvarray) = 3
    /\ dcall.passes >= 2
    /\ ~NotFulled(dcall.recvarray[1])
    /\ Received(dcall.recv0, dcall.recvarray, 1) > 0
    /\ NotFulled(dcall.recvarray[2]) /\ NotFulled(dcall.recvarray[3])
    /\ Received(dcall.recv0, dcall.recvarray, 3) >= 2
    /\ Received(dcall.recv0, dcall.recvarray, 2) = Received(dcall.recv0, dcall.recvarray, 3) + 1

\* o is the order p but for its traded_quantity
SameOrder(o, p) ==
    /\ o.uuid = p.uuid
    /\ o.required_quantity = p.required_quantity
    /\ o.prestige = p.prestige

\* every order of post is an order of pre, but for its traded_quantity
ComesFrom(post, pre) ==
    \A i \in DOMAIN post : \E j \in DOMAIN pre : SameOrder(post[i], pre[j])

\* the order register_order has just appended to the side otype, if that is the call
JustRegistered(otype) ==
    IF last.op = "register_order" /\ last.args[1] = otype
    THEN <<OrderInfoNew(last.uuid, last.args[2], last.args[3])>>
    ELSE <<>>

\* C27: run_trade changes nothing of an order but its traded_quantity: every order
\* in the book after the call is, on the same side, an order of the book before
\* the call with the same uuid, required_quantity and prestige, so no order
\* appears that was not there; register_order is the only call that adds an
\* order, with the quantity and prestige it was given, so these are the values
\* the order was registered with; and in every state no uuid occurs twice across
\* buy_orders and sell_orders.
C27_RunTradeFrame ==
    /\ UuidsUnique(buy_orders \o sell_orders)
    /\ last.op = "run_trade" =>
          /\ ComesFrom(buy_orders, last.pre_buy)
          /\ ComesFrom(sell_orders, last.pre_sell)
    /\ last.op \in {"register_order", "retrieve_order_result"} =>
          /\ ComesFrom(buy_orders, last.pre_buy \o JustRegistered("Buy"))
          /\ ComesFrom(sell_orders, last.pre_sell \o JustRegistered("Sell"))

\* run_trade kept two buy tiers and a sell order, traded something, and left the
\* buy orders in another order than it found them
C27_Witness ==
    /\ RanTrade
    /\ last.ret > 0
    /\ Len(last.pre_buy) = 2 /\ Len(buy_orders) = 2 /\ Len(sell_orders) = 1
    /\ buy_orders[1].uuid = last.pre_buy[2].uuid
    /\ buy_orders[1].traded_quantity > last.pre_buy[2].traded_quantity

====
